---- MODULE Spec2Model ----
(***************************************************************************)
(* Model of the travel-cost engine of EliseAIAnalysis:                     *)
(*   src/src/optimization.py    insertion heuristic and trip counting      *)
(*   src/src/travel_analysis.py travel aggregation                         *)
(*   src/main.py                create_optimized_schedule                  *)
(*                                                                         *)
(*   src/src/lateness_analysis.py lateness risk and schedule conflicts     *)
(*                                                                         *)
(* Time is counted in minutes from midnight of the first day; a calendar   *)
(* date is the start time divided by DayLen (data_loading.py:18).          *)
(* An event log is a sequence of events; the DataFrame index label of an   *)
(* event is its position in the log (the RangeIndex read_excel produces).  *)
(* Agent ids are non-empty strings (UUIDs in the data), so an agent id is  *)
(* always truthy in Python.  The property of a virtual tour is never read  *)
(* by the routines modelled, so virtual tours carry the property p1.       *)
(* sort_values('Start Time') is modelled as a stable sort: for frames of   *)
(* fewer than 16 rows numpy's quicksort is an insertion sort.              *)
(***************************************************************************)
EXTENDS Integers, Sequences, FiniteSets, TLC

\* ------------------------------------------------------------------ bounds
\* MaxTime: the number of the latest start slot of an event.  Two slots, 20
\* minutes apart, lie on each calendar date, so the slots 0..MaxTime cover
\* more than one date.  A day lasts DayLen minutes.
MaxTime == 2
DayLen == 1440
LogLengths == 0..3
Durations == {0, 20}
StartOfSlot(i) == DayLen * (i \div 2) + 20 * (i % 2)
StartTimes == { StartOfSlot(i) : i \in 0..MaxTime }

\* ------------------------------------------------------------ value domains
AgentIds == {"a1", "a2"}
PropertyIds == {"p1", "p2", "p3"}
MatrixProps == {"p1", "p2"}
ESCORTED == "ESCORTED"
VIRTUAL_TOUR == "VIRTUAL_TOUR"
NoLoc == "None"
NoAgent == "None"
NoEnd == -1
inf == -1
NoDate == -1

VARIABLES
  event_log,        \* the caller's event collection (never reassigned by the code)
  pc,               \* position: "call", "loop", "pass", "returned", "scheduled", "raised"
  pending,          \* dates groupby('Date') has still to yield
  current,          \* insertion_optimization_estimate: <<current>> once line 14 returned
  baseline,         \* insertion_optimization_estimate: baseline
  current_trips,    \* insertion_optimization_estimate: current_trips
  daily_results,    \* insertion_optimization_estimate: daily_results
  total_opt,        \* insertion_optimization_estimate: total_opt
  total_opt_trips,  \* insertion_optimization_estimate: total_opt_trips
  date,             \* optimize_single_day_insertion: date
  day_current,      \* optimize_single_day_insertion: [travel, trips] of the original day
  agents,           \* optimize_single_day_insertion: agents
  state,            \* optimize_single_day_insertion: state
  tours,            \* optimize_single_day_insertion: tours (index labels, sorted)
  k,                \* position of the for loop in tours
  assignments,      \* optimize_single_day_insertion: assignments
  optimized,        \* optimize_single_day_insertion: optimized (label -> event)
  warnings,         \* the WARNING lines printed so far
  result,           \* <<r>> once the estimate returned r to its caller, else <<>>
  optimized_events, \* <<frame>> once create_optimized_schedule returned, else <<>>
  commits,          \* history: each commit with the agent states it was decided on
  runs,             \* number of the current call of the estimate by the caller
  first_result,     \* the result of the caller's first call, once a second is made
  lateness_results, \* main: <<lateness_results>> once the lateness analysis returned
  impossible_schedules, \* main: <<conflicts>> once analyze_schedule_conflicts returned
  buffer_minutes,   \* analyze_schedule_conflicts: buffer_minutes
  property_coords,  \* main: the coordinates geocode_properties returned, by property id
  built_matrix      \* main: <<matrix>> once create_distance_matrix returned, else <<>>

vars == <<event_log, pc, pending, current, baseline, current_trips, daily_results, total_opt,
          total_opt_trips, date, day_current, agents, state, tours, k, assignments,
          optimized, warnings, result, optimized_events, commits, runs, first_result,
          lateness_results, impossible_schedules, buffer_minutes, property_coords,
          built_matrix>>

estimate_locals == <<pending, current, baseline, current_trips, daily_results, total_opt,
                     total_opt_trips>>

day_locals == <<date, day_current, agents, state, tours, k, assignments, optimized>>

lateness_locals == <<lateness_results, impossible_schedules, buffer_minutes>>

matrix_locals == <<property_coords, built_matrix>>

distance_matrix ==
  [pq \in MatrixProps \X MatrixProps |->
     IF pq[1] = pq[2] THEN 0 ELSE IF pq[1] = "p1" THEN 20 ELSE 40]

HasEntry(from, to) == from \in MatrixProps /\ to \in MatrixProps

Lookup(from, to) == distance_matrix[<<from, to>>]

Max(a, b) == IF a >= b THEN a ELSE b

\* ------------------------------------------------- building the matrix
\* A coordinate is a position on a road, counted in units of 5/12 mile (one
\* minute of driving at 25 mph); geopy's distance between two coordinates, in
\* twelfths of a mile, is then five times the difference of the positions.
Coords == 0..4

DistanceTwelfths(coord1, coord2) ==
  5 * (IF coord1 >= coord2 THEN coord1 - coord2 ELSE coord2 - coord1)

\* variant: no minimum trip duration
calculate_travel_time_unfloored(coord1, coord2) ==
  (DistanceTwelfths(coord1, coord2) * 60) \div (25 * 12) + 2

\* travel_time_minutes = (distance_miles / 25) * 60 + 2, at least 5
calculate_travel_time(coord1, coord2) ==
  Max((DistanceTwelfths(coord1, coord2) * 60) \div (25 * 12) + 2, 5)

\* create_distance_matrix: a frame indexed by the keys of property_coords
create_distance_matrix(coords) ==
  [pq \in (DOMAIN coords) \X (DOMAIN coords) |->
     IF pq[1] = pq[2] THEN 0
     ELSE calculate_travel_time(coords[pq[1]], coords[pq[2]])]

EventDomain ==
  { [agent |-> a, prop |-> tp[2], start |-> s, end |-> s + d, type |-> tp[1]] :
      a \in AgentIds,
      tp \in ({ESCORTED} \X PropertyIds) \cup {<<VIRTUAL_TOUR, "p1">>},
      s \in StartTimes,
      d \in Durations }

LogDomain ==
  UNION { { l \in [1..n -> EventDomain] : n = 0 \/ l[1].agent = "a1" } : n \in LogLengths }

DateOf(e) == e.start \div DayLen

\* ------------------------------------------------------- pandas primitives
\* event_log.groupby('Date'): the index labels of the rows of one date, in
\* input order
RECURSIVE DayFrameFrom(_, _, _)
DayFrameFrom(log, d, i) ==
  IF i > Len(log) THEN <<>>
  ELSE (IF DateOf(log[i]) = d THEN <<i>> ELSE <<>>) \o DayFrameFrom(log, d, i + 1)

DayFrame(log, d) == DayFrameFrom(log, d, 1)

\* the group keys of groupby('Date'), ascending
RECURSIVE SortedDates(_)
SortedDates(ds) ==
  IF ds = {} THEN <<>>
  ELSE LET m == CHOOSE x \in ds : \A y \in ds : x <= y
       IN <<m>> \o SortedDates(ds \ {m})

GroupDates(log) == SortedDates({ DateOf(log[i]) : i \in 1..Len(log) })

InSeq(x, s) == \E i \in 1..Len(s) : s[i] = x

\* variant: the agents of the whole log, not of the rows given
RECURSIVE UniqueFrom(_, _, _)
UniqueFrom(i, agentOf, acc) ==
  IF i > Len(agentOf) THEN acc
  ELSE UniqueFrom(i + 1, agentOf,
         IF InSeq(agentOf[i], acc) THEN acc ELSE Append(acc, agentOf[i]))

UniqueAgentsOfLog(ids, agentOf, acc) == UniqueFrom(1, agentOf, acc)

\* Series.unique(): values in order of first appearance
RECURSIVE UniqueAgents(_, _, _)
UniqueAgents(ids, agentOf, acc) ==
  IF ids = <<>> THEN acc
  ELSE UniqueAgents(Tail(ids), agentOf,
         IF InSeq(agentOf[Head(ids)], acc) THEN acc
         ELSE Append(acc, agentOf[Head(ids)]))

\* frame[frame['Leasing Agent ID'] == agent_id]
RECURSIVE RowsOfAgent(_, _, _)
RowsOfAgent(ids, agentOf, a) ==
  IF ids = <<>> THEN <<>>
  ELSE (IF agentOf[Head(ids)] = a THEN <<Head(ids)>> ELSE <<>>)
         \o RowsOfAgent(Tail(ids), agentOf, a)

RECURSIVE InsertByStart(_, _, _)
InsertByStart(sorted, id, log) ==
  IF sorted = <<>> THEN <<id>>
  ELSE IF log[Head(sorted)].start <= log[id].start
       THEN <<Head(sorted)>> \o InsertByStart(Tail(sorted), id, log)
       ELSE <<id>> \o sorted

\* frame.sort_values('Start Time')
RECURSIVE SortByStart(_, _)
SortByStart(ids, log) ==
  IF ids = <<>> THEN <<>>
  ELSE InsertByStart(SortByStart(SubSeq(ids, 1, Len(ids) - 1), log),
                     ids[Len(ids)], log)

OrigAgents(log) == [i \in 1..Len(log) |-> log[i].agent]

AllRows(log) == [i \in 1..Len(log) |-> i]

\* ---------------------------------------------------------- trip counting
\* variant: the first in-person event of an agent counts as a trip as well
RECURSIVE TripWalkFromNowhere(_, _, _)
TripWalkFromNowhere(rows, last_property, log) ==
  IF rows = <<>> THEN 0
  ELSE LET tour == log[Head(rows)] IN
       IF tour.type = ESCORTED
       THEN (IF last_property # tour.prop THEN 1 ELSE 0)
              + TripWalkFromNowhere(Tail(rows), tour.prop, log)
       ELSE TripWalkFromNowhere(Tail(rows), last_property, log)

\* the inner loop of count_total_travel_trips / count_daily_travel_trips
RECURSIVE TripWalk(_, _, _)
TripWalk(rows, last_property, log) ==
  IF rows = <<>> THEN 0
  ELSE LET tour == log[Head(rows)] IN
       IF tour.type = ESCORTED
       THEN (IF last_property # NoLoc /\ last_property # tour.prop THEN 1 ELSE 0)
              + TripWalk(Tail(rows), tour.prop, log)
       ELSE TripWalk(Tail(rows), last_property, log)

RECURSIVE TripSum(_, _, _, _)
TripSum(agent_list, ids, agentOf, log) ==
  IF agent_list = <<>> THEN 0
  ELSE TripWalk(SortByStart(RowsOfAgent(ids, agentOf, Head(agent_list)), log), NoLoc, log)
         + TripSum(Tail(agent_list), ids, agentOf, log)

count_total_travel_trips(log) ==
  TripSum(UniqueAgents(AllRows(log), OrigAgents(log), <<>>),
          AllRows(log), OrigAgents(log), log)

count_daily_travel_trips(ids, agentOf, log) ==
  TripSum(UniqueAgents(ids, agentOf, <<>>), ids, agentOf, log)

\* ------------------------------------------------------ travel accounting
\* A result is [raised, total]: raised is TRUE when a matrix lookup hit a
\* missing label (pandas raises KeyError) and the computation is abandoned.
\* variant: a virtual tour makes the agent lose the location
RECURSIVE TravelWalkVirtualResets(_, _, _)
TravelWalkVirtualResets(rows, loc, log) ==
  IF rows = <<>> THEN [raised |-> FALSE, total |-> 0]
  ELSE LET tour == log[Head(rows)] IN
       IF tour.type = ESCORTED
       THEN IF loc # NoLoc /\ loc # tour.prop
            THEN IF ~HasEntry(loc, tour.prop)
                 THEN [raised |-> TRUE, total |-> 0]
                 ELSE LET rest == TravelWalkVirtualResets(Tail(rows), tour.prop, log)
                      IN [raised |-> rest.raised,
                          total |-> Lookup(loc, tour.prop) + rest.total]
            ELSE TravelWalkVirtualResets(Tail(rows), tour.prop, log)
       ELSE TravelWalkVirtualResets(Tail(rows), NoLoc, log)

RECURSIVE TravelWalk(_, _, _)
TravelWalk(rows, loc, log) ==
  IF rows = <<>> THEN [raised |-> FALSE, total |-> 0]
  ELSE LET tour == log[Head(rows)] IN
       IF tour.type = ESCORTED
       THEN IF loc # NoLoc /\ loc # tour.prop
            THEN IF ~HasEntry(loc, tour.prop)
                 THEN [raised |-> TRUE, total |-> 0]
                 ELSE LET rest == TravelWalk(Tail(rows), tour.prop, log)
                      IN [raised |-> rest.raised,
                          total |-> Lookup(loc, tour.prop) + rest.total]
            ELSE TravelWalk(Tail(rows), tour.prop, log)
       ELSE TravelWalk(Tail(rows), loc, log)

RECURSIVE TravelSum(_, _, _, _)
TravelSum(agent_list, ids, agentOf, log) ==
  IF agent_list = <<>> THEN [raised |-> FALSE, total |-> 0]
  ELSE LET one == TravelWalk(SortByStart(RowsOfAgent(ids, agentOf, Head(agent_list)), log),
                             NoLoc, log)
           rest == TravelSum(Tail(agent_list), ids, agentOf, log)
       IN [raised |-> one.raised \/ rest.raised, total |-> one.total + rest.total]

calculate_daily_current_travel(ids, agentOf, log) ==
  TravelSum(UniqueAgents(ids, agentOf, <<>>), ids, agentOf, log)

\* ------------------------------------------------- the travel aggregator
\* the agent ids in ascending order: groupby sorts its group keys
AgentOrder == <<"a1", "a2">>

\* the rows of one (agent, date) group, in input order
RECURSIVE GroupFrom(_, _, _, _)
GroupFrom(log, a, d, i) ==
  IF i > Len(log) THEN <<>>
  ELSE (IF log[i].agent = a /\ DateOf(log[i]) = d THEN <<i>> ELSE <<>>)
         \o GroupFrom(log, a, d, i + 1)

RECURSIVE KeysOfAgent(_, _, _)
KeysOfAgent(a, dates, log) ==
  IF dates = <<>> THEN <<>>
  ELSE (IF GroupFrom(log, a, Head(dates), 1) # <<>> THEN << <<a, Head(dates)>> >> ELSE <<>>)
         \o KeysOfAgent(a, Tail(dates), log)

\* the keys of event_log.groupby(['Leasing Agent ID', 'Date']), in the order
\* the loop of line 73 visits them
RECURSIVE GroupKeys(_, _)
GroupKeys(agent_list, log) ==
  IF agent_list = <<>> THEN <<>>
  ELSE KeysOfAgent(Head(agent_list), GroupDates(log), log)
         \o GroupKeys(Tail(agent_list), log)

\* variant: the matrix is read from the destination to the origin
SegmentTimeReversed(from, to) == Lookup(to, from)

\* travel_time = distance_matrix.loc[current_physical_location, tour['Property ID']]
SegmentTime(from, to) == Lookup(from, to)

\* the loop of lines 82-107 over the sorted tours of one group, from the
\* 1-based position i on (tour_causing_travel is the 0-based position)
RECURSIVE SegmentWalk(_, _, _, _)
SegmentWalk(daily_tours, i, current_physical_location, log) ==
  IF i > Len(daily_tours)
  THEN [raised |-> FALSE, travel_segments |-> <<>>,
        final_physical_location |-> current_physical_location]
  ELSE LET tour == log[daily_tours[i]] IN
       IF tour.type = ESCORTED
       THEN IF current_physical_location # NoLoc /\ current_physical_location # tour.prop
            THEN IF ~HasEntry(current_physical_location, tour.prop)
                 THEN [raised |-> TRUE, travel_segments |-> <<>>,
                       final_physical_location |-> current_physical_location]
                 ELSE LET rest == SegmentWalk(daily_tours, i + 1, tour.prop, log)
                          prev_end == log[daily_tours[i - 1]].end
                      IN [rest EXCEPT !.travel_segments =
                            << [from_property |-> current_physical_location,
                                to_property |-> tour.prop,
                                travel_time |-> SegmentTime(current_physical_location,
                                                            tour.prop),
                                tour_causing_travel |-> i - 1,
                                prev_end |-> prev_end,
                                next_start |-> tour.start,
                                buffer_time |-> tour.start - prev_end] >> \o @]
            ELSE SegmentWalk(daily_tours, i + 1, tour.prop, log)
       ELSE SegmentWalk(daily_tours, i + 1, current_physical_location, log)

RECURSIVE SumTravelTime(_)
SumTravelTime(segments) ==
  IF segments = <<>> THEN 0
  ELSE Head(segments).travel_time + SumTravelTime(Tail(segments))

CountType(daily_tours, log, type) ==
  Cardinality({ i \in 1..Len(daily_tours) : log[daily_tours[i]].type = type })

\* the body of the loop of line 73 for one group: [raised, row of results]
GroupResult(key, log) ==
  LET daily_tours == SortByStart(GroupFrom(log, key[1], key[2], 1), log)
      walk == SegmentWalk(daily_tours, 1, NoLoc, log)
  IN [raised |-> walk.raised,
      row |-> [agent_id |-> key[1],
               date |-> key[2],
               total_tours |-> Len(daily_tours),
               escorted_tours |-> CountType(daily_tours, log, ESCORTED),
               virtual_tours |-> CountType(daily_tours, log, VIRTUAL_TOUR),
               actual_travels_required |-> Len(walk.travel_segments),
               daily_travel_time |-> SumTravelTime(walk.travel_segments),
               travel_segments |-> walk.travel_segments,
               final_physical_location |-> walk.final_physical_location]]

RECURSIVE GroupResults(_, _)
GroupResults(keys, log) ==
  IF keys = <<>> THEN [raised |-> FALSE, results |-> <<>>]
  ELSE LET one == GroupResult(Head(keys), log) IN
       IF one.raised THEN [raised |-> TRUE, results |-> <<>>]
       ELSE LET rest == GroupResults(Tail(keys), log)
            IN [raised |-> rest.raised, results |-> <<one.row>> \o rest.results]

RECURSIVE SumOver(_, _)
SumOver(rows, field) ==
  IF rows = <<>> THEN 0 ELSE Head(rows)[field] + SumOver(Tail(rows), field)

\* analyze_agent_travel: [raised, total, detailed_results, total_actual_travels];
\* total is total_estimated_travel_time
analyze_agent_travel(log) ==
  LET all == GroupResults(GroupKeys(AgentOrder, log), log)
  IN [raised |-> all.raised,
      total |-> SumOver(all.results, "daily_travel_time"),
      detailed_results |-> all.results,
      total_actual_travels |-> SumOver(all.results, "actual_travels_required")]

\* ------------------------------------------------- the lateness analyzer
\* variant: the risky band includes the margin itself
IsRiskyInclusive(lateness_minutes) == lateness_minutes >= -5 /\ lateness_minutes <= 0

\* is_risky = lateness_minutes > -5 and lateness_minutes <= 0
IsRisky(lateness_minutes) == lateness_minutes > -5 /\ lateness_minutes <= 0

\* is_late = lateness_minutes > 0
IsLate(lateness_minutes) == lateness_minutes > 0

\* variant: the spare time, not the shortfall
LatenessReversed(required_travel_time, available_time) ==
  available_time - required_travel_time

\* lateness_minutes = required_travel_time - available_time
LatenessOf(required_travel_time, available_time) ==
  required_travel_time - available_time

\* the record of lines 84-100 for one analysed pair of tours
Incident(agent_id, current_tour, next_tour) ==
  LET available_time == next_tour.start - current_tour.end
      required_travel_time == Lookup(current_tour.prop, next_tour.prop)
      lateness_minutes == LatenessOf(required_travel_time, available_time)
      is_late == IsLate(lateness_minutes)
      is_risky == IsRisky(lateness_minutes)
  IN [agent_id |-> agent_id,
      date |-> DateOf(current_tour),
      current_tour_end |-> current_tour.end,
      next_tour_start |-> next_tour.start,
      current_property |-> current_tour.prop,
      next_property |-> next_tour.prop,
      available_time_minutes |-> available_time,
      required_travel_time_minutes |-> required_travel_time,
      lateness_minutes |-> lateness_minutes,
      is_late |-> is_late,
      is_risky |-> is_risky,
      severity |-> IF is_late THEN "LATE" ELSE IF is_risky THEN "RISKY" ELSE "OK"]

\* the conditions of lines 45, 47 and 52 (206-215 in analyze_schedule_conflicts)
\* on two adjacent rows of an agent's events
TravelRequired(current_tour, next_tour) ==
  /\ current_tour.type = ESCORTED
  /\ next_tour.type = ESCORTED
  /\ DateOf(current_tour) = DateOf(next_tour)
  /\ current_tour.prop # next_tour.prop

\* for i in range(len(agent_events) - 1), lines 41-101; i is the 1-based
\* position of current_tour
RECURSIVE TransitionWalk(_, _, _, _)
TransitionWalk(agent_events, i, agent_id, log) ==
  IF i >= Len(agent_events) THEN [raised |-> FALSE, incidents |-> <<>>]
  ELSE LET current_tour == log[agent_events[i]]
           next_tour == log[agent_events[i + 1]]
       IN IF TravelRequired(current_tour, next_tour)
          THEN IF ~HasEntry(current_tour.prop, next_tour.prop)
               THEN [raised |-> TRUE, incidents |-> <<>>]
               ELSE LET rest == TransitionWalk(agent_events, i + 1, agent_id, log)
                    IN [rest EXCEPT !.incidents =
                          <<Incident(agent_id, current_tour, next_tour)>> \o @]
          ELSE TransitionWalk(agent_events, i + 1, agent_id, log)

IsLateIncident(incident) == incident.is_late

IsRiskyIncident(incident) == incident.is_risky

RECURSIVE MaxLateness(_)
MaxLateness(incidents) ==
  IF incidents = <<>> THEN 0
  ELSE Max(MaxLateness(Tail(incidents)),
           IF Head(incidents).is_late THEN Head(incidents).lateness_minutes ELSE 0)

\* the row of lines 108-121; the quotients lateness_rate, risk_rate and
\* avg_lateness_per_incident (each guarded by its divisor) are left out
AgentSummary(agent_id, incidents) ==
  LET late == SelectSeq(incidents, IsLateIncident)
      risky == SelectSeq(incidents, IsRiskyIncident)
  IN [agent_id |-> agent_id,
      total_travel_transitions |-> Len(incidents),
      late_transitions |-> Len(late),
      risky_transitions |-> Len(risky),
      on_time_transitions |-> Len(incidents) - Len(late) - Len(risky),
      total_lateness_minutes |-> SumOver(late, "lateness_minutes"),
      max_lateness_minutes |-> MaxLateness(incidents),
      has_lateness_issues |-> Len(late) > 0 \/ Len(risky) > 0]

\* agent_events of lines 26-27 (205-206): all events of the agent, every date
AgentEvents(agent_id, log) ==
  SortByStart(RowsOfAgent(AllRows(log), OrigAgents(log), agent_id), log)

\* the loop of line 25 over the agents
RECURSIVE LatenessLoop(_, _)
LatenessLoop(agent_list, log) ==
  IF agent_list = <<>>
  THEN [raised |-> FALSE, lateness_incidents |-> <<>>, agent_lateness_summary |-> <<>>]
  ELSE LET walk == TransitionWalk(AgentEvents(Head(agent_list), log), 1,
                                  Head(agent_list), log)
       IN IF walk.raised
          THEN [raised |-> TRUE, lateness_incidents |-> <<>>,
                agent_lateness_summary |-> <<>>]
          ELSE LET rest == LatenessLoop(Tail(agent_list), log)
               IN [raised |-> rest.raised,
                   lateness_incidents |-> walk.incidents \o rest.lateness_incidents,
                   agent_lateness_summary |->
                     <<AgentSummary(Head(agent_list), walk.incidents)>>
                       \o rest.agent_lateness_summary]

HasLateTransitions(row) == row.late_transitions > 0

HasLatenessIssues(row) == row.has_lateness_issues

\* analyze_agent_lateness_risk.  With no agent at all, agents_df is a frame
\* without columns and agents_df['late_transitions'] (line 145) raises KeyError.
analyze_agent_lateness_risk(log) ==
  LET loop == LatenessLoop(UniqueAgents(AllRows(log), OrigAgents(log), <<>>), log)
      agents_df == loop.agent_lateness_summary
  IN IF loop.raised \/ agents_df = <<>>
     THEN [raised |-> TRUE]
     ELSE [raised |-> FALSE,
           incidents_df |-> loop.lateness_incidents,
           agent_summary_df |-> agents_df,
           system_stats |->
             [total_agents |-> Len(agents_df),
              agents_with_late_incidents |-> Len(SelectSeq(agents_df, HasLateTransitions)),
              agents_with_any_issues |-> Len(SelectSeq(agents_df, HasLatenessIssues)),
              total_late_incidents |-> SumOver(agents_df, "late_transitions"),
              total_risky_incidents |-> SumOver(agents_df, "risky_transitions"),
              total_transitions |-> SumOver(agents_df, "total_travel_transitions")]]

\* variant: a transition with exactly the required time is flagged as well
TooShortOrEqual(available_time, required_time) == available_time <= required_time

\* if available_time < required_time
TooShort(available_time, required_time) == available_time < required_time

\* the loop of lines 209-236 over adjacent rows of one agent's events
RECURSIVE ConflictWalk(_, _, _, _, _)
ConflictWalk(agent_events, i, agent_id, log, buffer) ==
  IF i >= Len(agent_events) THEN [raised |-> FALSE, conflicts |-> <<>>]
  ELSE LET current_tour == log[agent_events[i]]
           next_tour == log[agent_events[i + 1]]
       IN IF TravelRequired(current_tour, next_tour)
          THEN IF ~HasEntry(current_tour.prop, next_tour.prop)
               THEN [raised |-> TRUE, conflicts |-> <<>>]
               ELSE LET rest == ConflictWalk(agent_events, i + 1, agent_id, log, buffer)
                        available_time == next_tour.start - current_tour.end
                        required_time == Lookup(current_tour.prop, next_tour.prop) + buffer
                    IN IF TooShort(available_time, required_time)
                       THEN [rest EXCEPT !.conflicts =
                               << [agent_id |-> agent_id,
                                   date |-> DateOf(current_tour),
                                   conflict_severity |-> required_time - available_time,
                                   available_time |-> available_time,
                                   required_time |-> required_time,
                                   current_tour_end |-> current_tour.end,
                                   next_tour_start |-> next_tour.start] >> \o @]
                       ELSE rest
          ELSE ConflictWalk(agent_events, i + 1, agent_id, log, buffer)

RECURSIVE ConflictLoop(_, _, _)
ConflictLoop(agent_list, log, buffer) ==
  IF agent_list = <<>> THEN [raised |-> FALSE, conflicts |-> <<>>]
  ELSE LET walk == ConflictWalk(AgentEvents(Head(agent_list), log), 1,
                                Head(agent_list), log, buffer)
       IN IF walk.raised THEN walk
          ELSE LET rest == ConflictLoop(Tail(agent_list), log, buffer)
               IN [raised |-> rest.raised, conflicts |-> walk.conflicts \o rest.conflicts]

\* analyze_schedule_conflicts: [raised, conflicts]
analyze_schedule_conflicts(log, buffer) ==
  ConflictLoop(UniqueAgents(AllRows(log), OrigAgents(log), <<>>), log, buffer)

\* --------------------------------------------- the insertion heuristic
\* variant: the states outlive the call (a dictionary kept outside the function)
InitialStateStale(agent_list) ==
  [a \in { agent_list[i] : i \in 1..Len(agent_list) } |->
     IF a \in DOMAIN state THEN state[a] ELSE [last_end |-> NoEnd, loc |-> NoLoc]]

\* state = {a: {'last_end': None, 'loc': None} for a in agents}
InitialState(agent_list) ==
  [a \in { agent_list[i] : i \in 1..Len(agent_list) } |-> [last_end |-> NoEnd, loc |-> NoLoc]]

\* variant: a busy agent reaches a virtual tour, or its first property, only
\* once free
EvaluateFromLastEnd(s, tour) ==
  IF tour.type = VIRTUAL_TOUR \/ s.loc = NoLoc
  THEN [raised |-> FALSE, travel |-> 0, arrival |-> Max(s.last_end, tour.start)]
  ELSE IF ~HasEntry(s.loc, tour.prop)
       THEN [raised |-> TRUE, travel |-> 0, arrival |-> 0]
       ELSE [raised |-> FALSE, travel |-> Lookup(s.loc, tour.prop),
             arrival |-> s.last_end + Lookup(s.loc, tour.prop)]

\* Compute arrival: [raised, travel, arrival] of one candidate for one tour
Evaluate(s, tour) ==
  IF tour.type = VIRTUAL_TOUR \/ s.loc = NoLoc
  THEN [raised |-> FALSE, travel |-> 0, arrival |-> tour.start]
  ELSE IF ~HasEntry(s.loc, tour.prop)
       THEN [raised |-> TRUE, travel |-> 0, arrival |-> 0]
       ELSE [raised |-> FALSE, travel |-> Lookup(s.loc, tour.prop),
             arrival |-> s.last_end + Lookup(s.loc, tour.prop)]

\* variant: the availability test is dropped
AvailableAlways(ev, tour) == TRUE

\* Check availability
Available(ev, tour) == ev.arrival <= tour.end

\* variant: the cost is the travel time alone, so the nearest agent wins
CostTravelOnly(ev, tour) == ev.travel

\* cost = travel + max((tour['Start Time'] - arrival).total_seconds() / 60, 0)
CostOf(ev, tour) == ev.travel + Max(tour.start - ev.arrival, 0)

\* variant: cost <= best_cost, so the last of several equal candidates wins
ImprovesOrEqual(cost, best_cost) == best_cost = inf \/ cost <= best_cost

\* cost < best_cost, with best_cost starting at np.inf
Improves(cost, best_cost) == best_cost = inf \/ cost < best_cost

\* for agent in agents: ... ; returns [raised, best_agent, best_cost]
RECURSIVE AgentLoop(_, _, _, _, _)
AgentLoop(agent_list, st, tour, best_agent, best_cost) ==
  IF agent_list = <<>>
  THEN [raised |-> FALSE, best_agent |-> best_agent, best_cost |-> best_cost]
  ELSE LET ev == Evaluate(st[Head(agent_list)], tour) IN
       IF ev.raised
       THEN [raised |-> TRUE, best_agent |-> best_agent, best_cost |-> best_cost]
       ELSE IF Available(ev, tour) /\ Improves(CostOf(ev, tour), best_cost)
            THEN AgentLoop(Tail(agent_list), st, tour, Head(agent_list), CostOf(ev, tour))
            ELSE AgentLoop(Tail(agent_list), st, tour, best_agent, best_cost)

\* variant: the fallback prints no warning
DetermineSilent(best_agent, st, tour) ==
  [assigned |-> IF best_agent # NoAgent THEN best_agent ELSE tour.agent,
   warned |-> FALSE]

\* Determine assignment: [assigned, warned]
Determine(best_agent, st, tour) ==
  IF best_agent # NoAgent
  THEN [assigned |-> best_agent, warned |-> FALSE]
  ELSE LET ev_o == Evaluate(st[tour.agent], tour) IN
       IF Available(ev_o, tour)
       THEN [assigned |-> tour.agent, warned |-> FALSE]
       ELSE [assigned |-> tour.agent, warned |-> TRUE]

\* Update state for assigned agent
UpdateState(s, tour) ==
  IF tour.type = VIRTUAL_TOUR
  THEN LET start_time == Max(IF s.last_end # NoEnd THEN s.last_end ELSE tour.start,
                             tour.start)
       IN [last_end |-> start_time + (tour.end - tour.start), loc |-> s.loc]
  ELSE LET start_time ==
             IF s.loc = NoLoc THEN tour.start
             ELSE Max(s.last_end + Lookup(s.loc, tour.prop), tour.start)
       IN [last_end |-> start_time + (tour.end - tour.start), loc |-> tour.prop]

\* optimized.at[tour_id, 'Leasing Agent ID'] = assigned_agent, for every record
RECURSIVE ApplyAssignments(_, _)
ApplyAssignments(frame, asg) ==
  IF asg = <<>> THEN frame
  ELSE ApplyAssignments(
         [frame EXCEPT ![Head(asg).tour_id].agent = Head(asg).assigned_agent],
         Tail(asg))

\* variant: an event no agent can take is left out of the assignments
RecordUnlessInfeasible(asg, idx, det) ==
  IF det.warned THEN asg
  ELSE Append(asg, [tour_id |-> idx, assigned_agent |-> det.assigned])

\* assignments.append({'tour_id': idx, 'assigned_agent': assigned})
RecordAssignment(asg, idx, det) ==
  Append(asg, [tour_id |-> idx, assigned_agent |-> det.assigned])

\* variant: with nothing to save, everything counts as saved
PctFullWhenNone(part, whole) == IF whole > 0 THEN (part * 100) \div whole ELSE 100

Pct(part, whole) == IF whole > 0 THEN (part * 100) \div whole ELSE 0

\* ------------------------------------------------------------- the program
\* nothing has been computed yet
Idle ==
  /\ pending = <<>>
  /\ current = <<>>
  /\ baseline = 0
  /\ current_trips = 0
  /\ daily_results = <<>>
  /\ total_opt = 0
  /\ total_opt_trips = 0
  /\ date = NoDate
  /\ day_current = [travel |-> 0, trips |-> 0]
  /\ agents = <<>>
  /\ state = InitialState(<<>>)
  /\ tours = <<>>
  /\ k = 1
  /\ assignments = <<>>
  /\ optimized = <<>>
  /\ warnings = <<>>
  /\ result = <<>>
  /\ optimized_events = <<>>
  /\ commits = <<>>
  /\ runs = 1
  /\ first_result = <<>>
  /\ lateness_results = <<>>
  /\ impossible_schedules = <<>>
  /\ buffer_minutes = 5
  /\ built_matrix = <<>>

\* the analyses are given distance_matrix; its construction is not part of them
Init ==
  /\ event_log \in LogDomain
  /\ pc = "call"
  /\ property_coords = <<>>
  /\ Idle

\* a KeyError leaves the function: nothing is returned to the caller
Raise ==
  /\ pc' = "raised"
  /\ UNCHANGED <<matrix_locals, lateness_locals,
                 event_log, estimate_locals, day_locals, warnings, result,
                 optimized_events, commits, runs, first_result>>

\* insertion_optimization_estimate, lines 14-22
Estimate ==
  /\ pc = "call"
  /\ LET travel == analyze_agent_travel(event_log) IN
     IF travel.raised THEN Raise
     ELSE /\ current' = <<travel>>
          /\ baseline' = travel.total
          /\ current_trips' = count_total_travel_trips(event_log)
          /\ daily_results' = <<>>
          /\ total_opt' = 0
          /\ total_opt_trips' = 0
          /\ pending' = GroupDates(event_log)
          /\ pc' = "loop"
          /\ UNCHANGED <<matrix_locals, lateness_locals,
                         event_log, day_locals, warnings, result, optimized_events,
                         commits, runs, first_result>>

\* the next group of line 24 enters optimize_single_day_insertion, lines 98-109
StartDay ==
  /\ pc = "loop"
  /\ pending # <<>>
  /\ LET daily_events == DayFrame(event_log, Head(pending))
         current_travel ==
           calculate_daily_current_travel(daily_events, OrigAgents(event_log), event_log)
     IN IF current_travel.raised THEN Raise
        ELSE /\ date' = Head(pending)
             /\ pending' = Tail(pending)
             /\ day_current' =
                  [travel |-> current_travel.total,
                   trips |-> count_daily_travel_trips(daily_events,
                                                      OrigAgents(event_log), event_log)]
             /\ agents' = UniqueAgents(daily_events, OrigAgents(event_log), <<>>)
             /\ state' = InitialState(agents')
             /\ tours' = SortByStart(daily_events, event_log)
             /\ k' = 1
             /\ assignments' = <<>>
             /\ optimized' = <<>>
             /\ pc' = "pass"
             /\ UNCHANGED <<matrix_locals, lateness_locals,
                            event_log, current, baseline, current_trips, daily_results, total_opt,
                            total_opt_trips, warnings, result, optimized_events, commits,
                            runs, first_result>>

\* one iteration of the for loop over tours, lines 110-166
AssignTour ==
  /\ pc = "pass"
  /\ k <= Len(tours)
  /\ LET idx == tours[k]
         tour == event_log[idx]
         loop == AgentLoop(agents, state, tour, NoAgent, inf)
     IN IF loop.raised THEN Raise
        ELSE LET det == Determine(loop.best_agent, state, tour) IN
             /\ assignments' = RecordAssignment(assignments, idx, det)
             /\ warnings' =
                  IF det.warned
                  THEN Append(warnings, [date |-> date, tour |-> idx, orig |-> tour.agent])
                  ELSE warnings
             /\ state' = [state EXCEPT ![det.assigned] = UpdateState(@, tour)]
             /\ commits' =
                  Append(commits, [run |-> runs, date |-> date, tour_id |-> idx,
                                   assigned |-> det.assigned, warned |-> det.warned,
                                   agents |-> agents, before |-> state])
             /\ k' = k + 1
             /\ UNCHANGED <<matrix_locals, lateness_locals,
                            event_log, pc, estimate_locals, date, day_current, agents,
                            tours, optimized, result, optimized_events, runs,
                            first_result>>

\* variant: the assignments are written into the caller's frame (no copy)
InputAliased(frame, asg) == ApplyAssignments(frame, asg)

\* the frame the caller passed in, after lines 169-171 worked on a copy of it
InputAfterBuild(frame, asg) == frame

\* lines 168-193 and the accumulation of lines 26-28
FinishDay ==
  /\ pc = "pass"
  /\ k > Len(tours)
  /\ LET daily_events == DayFrame(event_log, date)
         rebound == ApplyAssignments(event_log, assignments)
         optimized_travel ==
           calculate_daily_current_travel(daily_events, OrigAgents(rebound), rebound)
         optimized_trips ==
           count_daily_travel_trips(daily_events, OrigAgents(rebound), rebound)
     IN IF optimized_travel.raised THEN Raise
        ELSE /\ daily_results' = Append(daily_results,
                  [date |-> date,
                   current_travel_time |-> day_current.travel,
                   optimized_travel_time |-> optimized_travel.total,
                   savings |-> day_current.travel - optimized_travel.total,
                   savings_percentage |->
                     Pct(day_current.travel - optimized_travel.total, day_current.travel),
                   current_trips |-> day_current.trips,
                   optimized_trips |-> optimized_trips,
                   trip_savings |-> day_current.trips - optimized_trips,
                   trip_savings_percentage |->
                     Pct(day_current.trips - optimized_trips, day_current.trips),
                   assignments |-> assignments])
             /\ total_opt' = total_opt + optimized_travel.total
             /\ total_opt_trips' = total_opt_trips + optimized_trips
             /\ optimized' = [i \in { daily_events[j] : j \in 1..Len(daily_events) }
                                 |-> rebound[i]]
             /\ event_log' = InputAfterBuild(event_log, assignments)
             /\ pc' = "loop"
             /\ UNCHANGED <<matrix_locals, lateness_locals,
                            pending, current, baseline, current_trips, date, day_current, agents,
                            state, tours, k, assignments, warnings, result,
                            optimized_events, commits, runs, first_result>>

\* insertion_optimization_estimate, lines 30-46
Return ==
  /\ pc = "loop"
  /\ pending = <<>>
  /\ result' = << [current_travel_minutes |-> baseline,
                   optimized_travel_minutes |-> total_opt,
                   potential_savings_minutes |-> baseline - total_opt,
                   savings_percentage |-> Pct(baseline - total_opt, baseline),
                   current_travel_trips |-> current_trips,
                   optimized_travel_trips |-> total_opt_trips,
                   trip_savings |-> current_trips - total_opt_trips,
                   trip_savings_percentage |->
                     Pct(current_trips - total_opt_trips, current_trips),
                   daily_results |-> daily_results] >>
  /\ pc' = "returned"
  /\ UNCHANGED <<matrix_locals, lateness_locals,
                 event_log, estimate_locals, day_locals, warnings, optimized_events,
                 commits, runs, first_result>>

RECURSIVE AllAssignments(_)
AllAssignments(results) ==
  IF results = <<>> THEN <<>>
  ELSE Head(results).assignments \o AllAssignments(Tail(results))

\* main.py, create_optimized_schedule applied to the estimate's result
create_optimized_schedule(original_events, optimization_results) ==
  ApplyAssignments(original_events, AllAssignments(optimization_results.daily_results))

CreateOptimizedSchedule ==
  /\ pc = "returned"
  /\ optimized_events' = << create_optimized_schedule(event_log, result[1]) >>
  /\ event_log' = InputAfterBuild(event_log, AllAssignments(result[1].daily_results))
  /\ pc' = "scheduled"
  /\ UNCHANGED <<matrix_locals, lateness_locals,
                 estimate_locals, day_locals, warnings, result, commits, runs,
                 first_result>>

\* the caller calls the estimate a second time on the same log and matrix
RunAgain ==
  /\ pc = "returned"
  /\ runs = 1
  /\ first_result' = result
  /\ result' = <<>>
  /\ runs' = 2
  /\ pc' = "call"
  /\ UNCHANGED <<matrix_locals, lateness_locals,
                 event_log, estimate_locals, day_locals, warnings, optimized_events,
                 commits>>

Next == Estimate \/ StartDay \/ AssignTour \/ FinishDay \/ Return
          \/ CreateOptimizedSchedule

Spec == Init /\ [][Next]_vars

NextTwice == Next \/ RunAgain

SpecTwice == Init /\ [][NextTwice]_vars

\* ------------------------------------------- the lateness analysis of main
\* Logs for the lateness analysis: tours of 10 minutes starting 0, 25, 30, 32,
\* 35 or 40 minutes into the first day, or at the start of the second day, so
\* that the gaps between two tours lie on both sides of every threshold.
LatenessStarts == {0, 25, 30, 32, 35, 40, DayLen}

LatenessEventDomain ==
  { [agent |-> a, prop |-> tp[2], start |-> s, end |-> s + 10, type |-> tp[1]] :
      a \in AgentIds,
      tp \in ({ESCORTED} \X PropertyIds) \cup {<<VIRTUAL_TOUR, "p1">>},
      s \in LatenessStarts }

LatenessLogDomain ==
  UNION { { l \in [1..n -> LatenessEventDomain] : n = 0 \/ l[1].agent = "a1" } :
            n \in LogLengths }

\* the values of buffer_minutes a caller passes: none (the default 5) or 0
BufferChoices == {0, 5}

InitLateness ==
  /\ event_log \in LatenessLogDomain
  /\ pc = "lateness"
  /\ property_coords = <<>>
  /\ Idle

\* main.py lines 148-150
AnalyzeLateness ==
  /\ pc = "lateness"
  /\ LET r == analyze_agent_lateness_risk(event_log) IN
     IF r.raised THEN Raise
     ELSE /\ lateness_results' = <<r>>
          /\ pc' = "conflicts"
          /\ UNCHANGED <<matrix_locals, event_log, estimate_locals, day_locals, warnings, result,
                         optimized_events, commits, runs, first_result,
                         impossible_schedules, buffer_minutes>>

\* main.py line 153
AnalyzeConflicts ==
  /\ pc = "conflicts"
  /\ \E buffer \in BufferChoices :
       LET r == analyze_schedule_conflicts(event_log, buffer) IN
       IF r.raised THEN Raise
       ELSE /\ impossible_schedules' = <<r.conflicts>>
            /\ buffer_minutes' = buffer
            /\ pc' = "analysed"
            /\ UNCHANGED <<matrix_locals, event_log, estimate_locals, day_locals, warnings, result,
                           optimized_events, commits, runs, first_result,
                           lateness_results>>

NextLateness == AnalyzeLateness \/ AnalyzeConflicts

SpecLateness == InitLateness /\ [][NextLateness]_vars

\* ------------------------------------------- the matrix construction of main
\* the coordinates of any set of properties; two properties may share one
CoordsDomain == UNION { [ids -> Coords] : ids \in SUBSET PropertyIds }

InitMatrix ==
  /\ event_log = <<>>
  /\ pc = "coords"
  /\ property_coords \in CoordsDomain
  /\ Idle

\* main.py line 121
CreateDistanceMatrix ==
  /\ pc = "coords"
  /\ built_matrix' = <<create_distance_matrix(property_coords)>>
  /\ pc' = "matrix"
  /\ UNCHANGED <<property_coords, lateness_locals, event_log, estimate_locals, day_locals,
                 warnings, result, optimized_events, commits, runs, first_result>>

NextMatrix == CreateDistanceMatrix

SpecMatrix == InitMatrix /\ [][NextMatrix]_vars

\* ------------------------------------------------------------------ claims
\* The quantities the claims speak of, read off a recorded commit c: the
\* tour, and each candidate's arrival, travel and cost on the agent states
\* the commit was decided on.
TourOf(c) == event_log[c.tour_id]

TravelTo(s, tour) ==
  IF tour.type = VIRTUAL_TOUR \/ s.loc = NoLoc THEN 0
  ELSE distance_matrix[<<s.loc, tour.prop>>]

ArrivalAt(s, tour) ==
  IF tour.type = VIRTUAL_TOUR \/ s.loc = NoLoc THEN tour.start
  ELSE s.last_end + distance_matrix[<<s.loc, tour.prop>>]

CandidateCost(s, tour) ==
  LET wait == tour.start - ArrivalAt(s, tour)
  IN TravelTo(s, tour) + (IF wait > 0 THEN wait ELSE 0)

DayAgents(c) == { c.agents[i] : i \in 1..Len(c.agents) }

EligibleAgents(c) ==
  { a \in DayAgents(c) : ArrivalAt(c.before[a], TourOf(c)) <= TourOf(c).end }

Position(c, a) == CHOOSE i \in 1..Len(c.agents) : c.agents[i] = a

WarningFor(c) ==
  \E j \in 1..Len(warnings) :
    warnings[j] = [date |-> c.date, tour |-> c.tour_id, orig |-> TourOf(c).agent]

Commits == { commits[i] : i \in 1..Len(commits) }

\* C1: every committed assignment either has the agent arrive no later than
\* the event's end, on the agent's state at the moment of commitment, or a
\* "No available agent" warning was printed for that event.
C1_FeasibleOrFlagged ==
  \A c \in Commits :
    \/ ArrivalAt(c.before[c.assigned], TourOf(c)) <= TourOf(c).end
    \/ WarningFor(c)

\* C1 witness: a day with a commit that needed travel and arrived in time and
\* a commit that was flagged as a fallback.
C1_Witness ==
  /\ \E c \in Commits :
       /\ c.before[c.assigned].loc # NoLoc
       /\ TourOf(c).type = ESCORTED
       /\ c.before[c.assigned].loc # TourOf(c).prop
       /\ ~c.warned
  /\ \E c \in Commits : c.warned /\ WarningFor(c)

\* the first index of an event of agent a in the day's input
FirstAppearance(c, a) ==
  CHOOSE i \in 1..Len(event_log) :
    /\ DateOf(event_log[i]) = c.date
    /\ event_log[i].agent = a
    /\ \A j \in 1..(i - 1) :
         ~(DateOf(event_log[j]) = c.date /\ event_log[j].agent = a)

\* C2: when some agent of the day is eligible, the event goes to an eligible
\* agent of minimal cost travel + max(0, start - arrival), and among agents of
\* that minimal cost to the one that appears first in the day's input.
C2_CheapestEligibleFirstSeen ==
  \A c \in Commits :
    EligibleAgents(c) # {} =>
      /\ c.assigned \in EligibleAgents(c)
      /\ \A a \in EligibleAgents(c) :
           LET mine == CandidateCost(c.before[c.assigned], TourOf(c))
               other == CandidateCost(c.before[a], TourOf(c))
           IN /\ mine <= other
              /\ (mine = other /\ a # c.assigned) =>
                   FirstAppearance(c, c.assigned) < FirstAppearance(c, a)

\* C2 witness: exactly one agent is eligible and it is not the agent the
\* event was originally assigned to.
C2_Witness ==
  \E c \in Commits :
    /\ Cardinality(EligibleAgents(c)) = 1
    /\ c.assigned \in EligibleAgents(c)
    /\ c.assigned # TourOf(c).agent
    /\ Cardinality(DayAgents(c)) > 1

\* C3: when no agent of the day is eligible, the event stays with its
\* original agent and a warning naming the date, the event and that agent
\* is printed.
C3_FallbackToOriginal ==
  \A c \in Commits :
    EligibleAgents(c) = {} =>
      /\ c.assigned = TourOf(c).agent
      /\ WarningFor(c)

\* C3 witness: a commit for which neither of two agents was eligible.
C3_Witness ==
  \E c \in Commits :
    /\ EligibleAgents(c) = {}
    /\ Cardinality(DayAgents(c)) > 1
    /\ c.assigned = TourOf(c).agent

AssignmentsFor(r, id) ==
  { j \in 1..Len(r.assignments) : r.assignments[j].tour_id = id }

\* C4: the assignments of a completed day hold exactly one record for each
\* event of that day's input, and no other record.
C4_OneAssignmentPerEvent ==
  \A n \in 1..Len(daily_results) :
    LET r == daily_results[n]
        ids == DayFrame(event_log, r.date)
    IN /\ Len(r.assignments) = Len(ids)
       /\ \A j \in 1..Len(ids) : Cardinality(AssignmentsFor(r, ids[j])) = 1

\* C4 witness: a completed day of several events, one of them infeasible for
\* every agent.
C4_Witness ==
  \E n \in 1..Len(daily_results) :
    /\ Len(daily_results[n].assignments) > 1
    /\ \E c \in Commits :
         c.date = daily_results[n].date /\ c.run = runs /\ EligibleAgents(c) = {}

SameButAgent(e, f) ==
  /\ e.prop = f.prop
  /\ e.start = f.start
  /\ e.end = f.end
  /\ e.type = f.type
  /\ DateOf(e) = DateOf(f)

\* the optimized frames built so far hold the input's events, agent aside
FramesKeepEvents ==
  /\ \A i \in DOMAIN optimized : SameButAgent(optimized[i], event_log[i])
  /\ optimized # <<>> =>
       DOMAIN optimized = { i \in 1..Len(event_log) : DateOf(event_log[i]) = date }
  /\ optimized_events # <<>> =>
       /\ Len(optimized_events[1]) = Len(event_log)
       /\ \A i \in 1..Len(event_log) :
            SameButAgent(optimized_events[1][i], event_log[i])

\* C5: no step changes the input collection, and the optimized collection of a
\* day and of the whole schedule holds the input's events with property, start,
\* end, tour type and date unchanged.
C5_OnlyAgentRebound ==
  [][event_log' = event_log /\ FramesKeepEvents']_vars

\* C5 witness: an optimized schedule in which an event changed its agent.
C5_Witness ==
  /\ pc = "scheduled"
  /\ \E i \in 1..Len(event_log) : optimized_events[1][i].agent # event_log[i].agent

AssignmentsEqual(r1, r2) ==
  /\ Len(r1) = Len(r2)
  /\ \A n \in 1..Len(r1) :
       r1[n].date = r2[n].date /\ r1[n].assignments = r2[n].assignments

\* C6: a second run on the same events and matrix returns, day by day, the
\* assignment list of the first run.
C6_SecondRunSameAssignments ==
  (runs = 2 /\ pc = "returned") =>
    AssignmentsEqual(first_result[1].daily_results, result[1].daily_results)

\* C6 witness: a second run returned, for a day on which an event changed
\* its agent.
C6_Witness ==
  /\ runs = 2
  /\ pc = "returned"
  /\ \E n \in 1..Len(result[1].daily_results) :
       \E j \in 1..Len(result[1].daily_results[n].assignments) :
         LET a == result[1].daily_results[n].assignments[j]
         IN a.assigned_agent # event_log[a.tour_id].agent

\* The log that holds only the events of date d (the events of every other
\* date removed), and what a pass over it from agents without a past gives:
\* the agents assigned, in the order of the pass, and the day's figures.
RECURSIVE EventsOfDate(_, _)
EventsOfDate(log, d) ==
  IF log = <<>> THEN <<>>
  ELSE (IF DateOf(Head(log)) = d THEN <<Head(log)>> ELSE <<>>)
         \o EventsOfDate(Tail(log), d)

NoPast(agent_list) ==
  [a \in { agent_list[i] : i \in 1..Len(agent_list) } |-> [last_end |-> NoEnd, loc |-> NoLoc]]

RECURSIVE PassAlone(_, _, _, _, _)
PassAlone(ts, st, asg, agent_list, log) ==
  IF ts = <<>> THEN [raised |-> FALSE, assignments |-> asg]
  ELSE LET tour == log[Head(ts)]
           loop == AgentLoop(agent_list, st, tour, NoAgent, inf)
       IN IF loop.raised THEN [raised |-> TRUE, assignments |-> asg]
          ELSE LET det == Determine(loop.best_agent, st, tour) IN
               PassAlone(Tail(ts), [st EXCEPT ![det.assigned] = UpdateState(@, tour)],
                         RecordAssignment(asg, Head(ts), det), agent_list, log)

DayAlone(d) ==
  LET log == EventsOfDate(event_log, d)
      ids == AllRows(log)
      agent_list == UniqueAgents(ids, OrigAgents(log), <<>>)
      before == calculate_daily_current_travel(ids, OrigAgents(log), log)
      pass == PassAlone(SortByStart(ids, log), NoPast(agent_list), <<>>, agent_list, log)
      rebound == ApplyAssignments(log, pass.assignments)
      after == calculate_daily_current_travel(ids, OrigAgents(rebound), rebound)
  IN IF before.raised \/ pass.raised \/ after.raised
     THEN [raised |-> TRUE]
     ELSE [raised |-> FALSE,
           assigned |-> [j \in 1..Len(pass.assignments) |->
                           pass.assignments[j].assigned_agent],
           current_travel_time |-> before.total,
           optimized_travel_time |-> after.total,
           current_trips |-> count_daily_travel_trips(ids, OrigAgents(log), log),
           optimized_trips |-> count_daily_travel_trips(ids, OrigAgents(rebound), rebound)]

\* a per-day result r gives what the pass over the date's events alone gives
MatchesDayAlone(r) ==
  LET alone == DayAlone(r.date) IN
  /\ ~alone.raised
  /\ [j \in 1..Len(r.assignments) |-> r.assignments[j].assigned_agent] = alone.assigned
  /\ r.current_travel_time = alone.current_travel_time
  /\ r.optimized_travel_time = alone.optimized_travel_time
  /\ r.current_trips = alone.current_trips
  /\ r.optimized_trips = alone.optimized_trips

\* C7: every day's pass starts from agents with no last_end and no location,
\* and the assignments, travel minutes and trip counts computed for a date are
\* those of a run on that date's events alone, whatever the other dates hold.
C7_DayIndependent ==
  /\ (pc = "pass" /\ k = 1) =>
       \A a \in DOMAIN state : state[a] = [last_end |-> NoEnd, loc |-> NoLoc]
  /\ \A n \in 1..Len(daily_results) : MatchesDayAlone(daily_results[n])

\* C7 witness: the result of a second date, for an agent that was given an
\* in-person event on the first date.
C7_Witness ==
  /\ Len(daily_results) = 2
  /\ \E c1 \in Commits, c2 \in Commits :
       /\ c1.date = daily_results[1].date
       /\ c2.date = daily_results[2].date
       /\ c1.assigned = c2.assigned
       /\ TourOf(c1).type = ESCORTED
       /\ TourOf(c2).type = ESCORTED
       /\ TourOf(c1).prop # TourOf(c2).prop

\* the per-day results the caller of the estimate holds
Received == IF result = <<>> THEN <<>> ELSE result[1].daily_results

KeepsOriginalAgents(r) ==
  \A j \in 1..Len(r.assignments) :
    r.assignments[j].assigned_agent = event_log[r.assignments[j].tour_id].agent

\* the run ended inside the for loop over a day's tours, after a first commit
FailedPartWay ==
  pc = "raised" /\ date # NoDate /\ k <= Len(tours) /\ assignments # <<>>

\* C8: a day's optimization is atomic: every per-day result the caller holds
\* is a full pass over the day's events, and when the pass of a day fails
\* part-way the caller holds the original assignment for that day.
C8_FullPassOrOriginal ==
  /\ \A n \in 1..Len(Received) :
       Len(Received[n].assignments) = Len(DayFrame(event_log, Received[n].date))
  /\ FailedPartWay =>
       \E n \in 1..Len(Received) :
         Received[n].date = date /\ KeepsOriginalAgents(Received[n])

\* C9: when the run hit an error while optimizing one date, the caller holds,
\* for every date that is optimized without error on its own, the result of
\* that date alone.
C9_OtherDatesKept ==
  (pc = "raised" /\ date # NoDate) =>
    \A i \in 1..Len(event_log) :
      ~DayAlone(DateOf(event_log[i])).raised =>
        \E n \in 1..Len(Received) :
          /\ Received[n].date = DateOf(event_log[i])
          /\ MatchesDayAlone(Received[n])

\* C10: when an in-person event refers to a property that the matrix does not
\* hold, the run returns no travel totals and no assignments.
C10_MissingPropertyFails ==
  (\E i \in 1..Len(event_log) :
     event_log[i].type = ESCORTED /\ event_log[i].prop \notin MatrixProps)
    => result = <<>>

\* The rows of the travel aggregator's detailed_results, read in the state
\* the call of line 14 returns to (current is not assigned again during the
\* call), and for a row r the events of its agent-day in start order
\* (positions 1..Len).
AggregatorReturned == pc = "loop" /\ daily_results = <<>> /\ current # <<>>

Analysed == IF AggregatorReturned THEN current[1].detailed_results ELSE <<>>

GroupTours(r) == SortByStart(GroupFrom(event_log, r.agent_id, r.date, 1), event_log)

InPerson(r, i) == event_log[GroupTours(r)[i]].type = ESCORTED

PropAt(r, i) == event_log[GroupTours(r)[i]].prop

EarlierInPerson(r, i) == { j \in 1..(i - 1) : InPerson(r, j) }

MostRecent(r, i) ==
  CHOOSE j \in EarlierInPerson(r, i) : \A l \in EarlierInPerson(r, i) : l <= j

NeedsTravel(r, i) ==
  /\ InPerson(r, i)
  /\ EarlierInPerson(r, i) # {}
  /\ PropAt(r, MostRecent(r, i)) # PropAt(r, i)

LocationAfter(r) ==
  LET n == Len(GroupTours(r)) IN
  IF EarlierInPerson(r, n + 1) = {} THEN NoLoc ELSE PropAt(r, MostRecent(r, n + 1))

\* C11: analyze_agent_travel records a travel segment for an event of an
\* agent-day exactly when the event is in person and its property differs from
\* the property of the most recent earlier in-person event of that agent-day;
\* the segment leads from that earlier property to the event's property and its
\* travel_time is the matrix entry in that direction; virtual events record no
\* segment and do not change the location, and the final location is the
\* property of the last in-person event.
C11_SegmentPerPropertyChange ==
  \A n \in 1..Len(Analysed) :
    LET r == Analysed[n]
        segs == r.travel_segments
    IN /\ \A i \in 1..Len(GroupTours(r)) :
            NeedsTravel(r, i) <=>
              \E m \in 1..Len(segs) : segs[m].tour_causing_travel = i - 1
       /\ \A m \in 1..Len(segs) :
            LET i == segs[m].tour_causing_travel + 1 IN
            /\ i \in 1..Len(GroupTours(r))
            /\ segs[m].from_property = PropAt(r, MostRecent(r, i))
            /\ segs[m].to_property = PropAt(r, i)
            /\ segs[m].travel_time =
                 distance_matrix[<<segs[m].from_property, segs[m].to_property>>]
       /\ \A m1, m2 \in 1..Len(segs) :
            segs[m1].tour_causing_travel = segs[m2].tour_causing_travel => m1 = m2
       /\ r.final_physical_location = LocationAfter(r)

\* an agent-day with a virtual event between two in-person events at different
\* properties: one segment, caused by the third event, in the direction p2 -> p1
C11_Witness ==
  \E n \in 1..Len(Analysed) :
    LET r == Analysed[n] IN
    /\ r.total_tours = 3
    /\ ~InPerson(r, 2)
    /\ Len(r.travel_segments) = 1
    /\ r.travel_segments[1].tour_causing_travel = 2
    /\ r.travel_segments[1].from_property = "p2"
    /\ r.travel_segments[1].to_property = "p1"
    /\ r.travel_segments[1].travel_time = 40

\* The in-person events of agent a on date d in start order, and the number
\* of adjacent pairs of them at different properties.
IsInPerson(i) == event_log[i].type = ESCORTED

InPersonTours(a, d) ==
  SelectSeq(SortByStart(GroupFrom(event_log, a, d, 1), event_log), IsInPerson)

AdjacentChanges(a, d) ==
  LET seq == InPersonTours(a, d) IN
  Cardinality({ j \in 1..(Len(seq) - 1) :
                  event_log[seq[j]].prop # event_log[seq[j + 1]].prop })

RECURSIVE ChangesOfDay(_, _)
ChangesOfDay(agent_list, d) ==
  IF agent_list = <<>> THEN 0
  ELSE AdjacentChanges(Head(agent_list), d) + ChangesOfDay(Tail(agent_list), d)

\* C12: for an agent-day with k >= 1 in-person events the trip count equals
\* the number of adjacent pairs with differing property in the start-ordered
\* in-person events of that agent-day, and is at most k - 1: this holds for
\* actual_travels_required of every row of analyze_agent_travel, and for
\* count_daily_travel_trips, whose value for a day is the sum of these counts
\* over the agents of the day (the count itself when the day has one agent).
C12_TripsAreAdjacentChanges ==
  /\ \A n \in 1..Len(Analysed) :
       LET r == Analysed[n] IN
       /\ r.actual_travels_required = AdjacentChanges(r.agent_id, r.date)
       /\ r.escorted_tours = Len(InPersonTours(r.agent_id, r.date))
       /\ r.escorted_tours >= 1 => r.actual_travels_required <= r.escorted_tours - 1
  /\ (pc = "pass" /\ k = 1) =>
       /\ day_current.trips = ChangesOfDay(agents, date)
       /\ Len(agents) = 1 =>
            /\ day_current.trips = AdjacentChanges(agents[1], date)
            /\ Len(InPersonTours(agents[1], date)) >= 1 =>
                 day_current.trips <= Len(InPersonTours(agents[1], date)) - 1

\* a day of one agent with three in-person events at p1, p2, p1: two trips
C12_Witness ==
  /\ pc = "pass" /\ k = 1
  /\ Len(agents) = 1
  /\ Len(InPersonTours(agents[1], date)) = 3
  /\ day_current.trips = 2
  /\ current[1].detailed_results[1].actual_travels_required = 2

\* C13: the system-wide current trip count the estimate returns
\* (current_travel_trips) equals the sum over the dates of the per-day
\* current_trips and equals the aggregator's total_actual_travels.
C13_SystemTripsAreDailySum ==
  pc = "returned" =>
    /\ result[1].current_travel_trips = SumOver(result[1].daily_results, "current_trips")
    /\ result[1].current_travel_trips = current[1].total_actual_travels

\* The pairs the lateness routines work on, stated on the log: position i of
\* agent a's start-ordered events (all dates) is a transition when the events
\* at i and i + 1 are both in person, on one date and at different properties.
EventsOf(a) == AgentEvents(a, event_log)

EventAt(a, i) == event_log[EventsOf(a)[i]]

Transitions(a) ==
  { i \in 1..(Len(EventsOf(a)) - 1) :
      /\ EventAt(a, i).type = ESCORTED
      /\ EventAt(a, i + 1).type = ESCORTED
      /\ DateOf(EventAt(a, i)) = DateOf(EventAt(a, i + 1))
      /\ EventAt(a, i).prop # EventAt(a, i + 1).prop }

GapAt(a, i) == EventAt(a, i + 1).start - EventAt(a, i).end

CostAt(a, i) == distance_matrix[<<EventAt(a, i).prop, EventAt(a, i + 1).prop>>]

\* the place of position i among the positions S, counted from 1
Rank(S, i) == Cardinality({ j \in S : j <= i })

IncidentsOf(a) ==
  SelectSeq(lateness_results[1].incidents_df, LAMBDA inc : inc.agent_id = a)

\* C14: for every transition it analyses, analyze_agent_lateness_risk records
\* available = next start - current end, required = matrix[current property,
\* next property] and lateness = required - available, and classifies it LATE
\* exactly when lateness > 0, RISKY exactly when -5 < lateness <= 0, and OK
\* otherwise; with a cost of 20 a gap of 15 is LATE by 5, a gap of 22 is RISKY
\* at -2 and a gap of 30 is OK.
C14_LatenessClassification ==
  lateness_results # <<>> =>
    \A a \in AgentIds :
      /\ Len(IncidentsOf(a)) = Cardinality(Transitions(a))
      /\ \A i \in Transitions(a) :
           LET inc == IncidentsOf(a)[Rank(Transitions(a), i)]
               lateness == CostAt(a, i) - GapAt(a, i)
           IN /\ inc.current_tour_end = EventAt(a, i).end
              /\ inc.next_tour_start = EventAt(a, i + 1).start
              /\ inc.current_property = EventAt(a, i).prop
              /\ inc.next_property = EventAt(a, i + 1).prop
              /\ inc.available_time_minutes = GapAt(a, i)
              /\ inc.required_travel_time_minutes = CostAt(a, i)
              /\ inc.lateness_minutes = lateness
              /\ inc.severity \in {"LATE", "RISKY", "OK"}
              /\ inc.severity = "LATE" <=> lateness > 0
              /\ inc.severity = "RISKY" <=> (-5 < lateness /\ lateness <= 0)
              /\ inc.is_late = (lateness > 0)
              /\ inc.is_risky = (-5 < lateness /\ lateness <= 0)
              /\ (CostAt(a, i) = 20 /\ GapAt(a, i) = 15) =>
                   (inc.severity = "LATE" /\ inc.lateness_minutes = 5)
              /\ (CostAt(a, i) = 20 /\ GapAt(a, i) = 22) =>
                   (inc.severity = "RISKY" /\ inc.lateness_minutes = -2)
              /\ (CostAt(a, i) = 20 /\ GapAt(a, i) = 30) => inc.severity = "OK"

\* one agent, three tours: p1 -> p2 with a gap of 22 against a cost of 20
\* (RISKY at -2), then p2 -> p1 starting before the second tour ends (LATE)
C14_Witness ==
  /\ lateness_results # <<>>
  /\ Len(IncidentsOf("a1")) = 2
  /\ IncidentsOf("a1")[1].severity = "RISKY"
  /\ IncidentsOf("a1")[1].lateness_minutes = -2
  /\ IncidentsOf("a1")[2].severity = "LATE"

\* the aggregator's trips of agent a, summed over the agent's days
AggregatorTripsOf(a) ==
  SumOver(SelectSeq(analyze_agent_travel(event_log).detailed_results,
                    LAMBDA r : r.agent_id = a),
          "actual_travels_required")

\* C15: the lateness analyzer analyses every pair of in-person events of one
\* agent and date that are consecutive among the agent's in-person events and
\* at different properties, also when virtual events lie between them, so an
\* agent's total_travel_transitions equals the aggregator's trip count of that
\* agent summed over the days.
C15_TransitionsEqualTrips ==
  (lateness_results # <<>> /\ ~analyze_agent_travel(event_log).raised) =>
    \A n \in 1..Len(lateness_results[1].agent_summary_df) :
      LET row == lateness_results[1].agent_summary_df[n] IN
      row.total_travel_transitions = AggregatorTripsOf(row.agent_id)

ConflictsOf(a) == SelectSeq(impossible_schedules[1], LAMBDA c : c.agent_id = a)

Flagged(a, buffer) == { i \in Transitions(a) : GapAt(a, i) < CostAt(a, i) + buffer }

\* C16: analyze_schedule_conflicts flags a transition exactly when the
\* available time is less than the required travel time plus the buffer, and
\* every record it writes has conflict_severity = required + buffer -
\* available > 0, whatever the transition's LATE/RISKY/OK class.
C16_ConflictIffTooShort ==
  impossible_schedules # <<>> =>
    \A a \in AgentIds :
      /\ Len(ConflictsOf(a)) = Cardinality(Flagged(a, buffer_minutes))
      /\ \A i \in Flagged(a, buffer_minutes) :
           LET c == ConflictsOf(a)[Rank(Flagged(a, buffer_minutes), i)] IN
           /\ c.current_tour_end = EventAt(a, i).end
           /\ c.next_tour_start = EventAt(a, i + 1).start
           /\ c.available_time = GapAt(a, i)
           /\ c.required_time = CostAt(a, i) + buffer_minutes
           /\ c.conflict_severity = CostAt(a, i) + buffer_minutes - GapAt(a, i)
           /\ c.conflict_severity > 0

\* default buffer: of two transitions of one agent the one with exactly
\* required + 5 minutes is not flagged, the other is
C16_Witness ==
  /\ impossible_schedules # <<>>
  /\ buffer_minutes = 5
  /\ \E a \in AgentIds :
       /\ Cardinality(Transitions(a)) = 2
       /\ Len(ConflictsOf(a)) = 1
       /\ \E i \in Transitions(a) : GapAt(a, i) = CostAt(a, i) + 5

\* C17: with buffer 0 every transition flagged impossible is classified LATE
\* or RISKY by the lateness analysis of the same log and matrix, never OK.
C17_ImpossibleIsLateOrRisky ==
  (impossible_schedules # <<>> /\ buffer_minutes = 0) =>
    \A a \in AgentIds :
      /\ Len(ConflictsOf(a)) = Cardinality(Flagged(a, 0))
      /\ Len(IncidentsOf(a)) = Cardinality(Transitions(a))
      /\ \A i \in Flagged(a, 0) :
           LET c == ConflictsOf(a)[Rank(Flagged(a, 0), i)]
               inc == IncidentsOf(a)[Rank(Transitions(a), i)]
           IN /\ c.current_tour_end = inc.current_tour_end
              /\ c.next_tour_start = inc.next_tour_start
              /\ inc.severity \in {"LATE", "RISKY"}

\* buffer 0: a transition is flagged while another of the same agent, with
\* time to spare, is not
C17_Witness ==
  /\ impossible_schedules # <<>>
  /\ buffer_minutes = 0
  /\ \E a \in AgentIds :
       /\ Len(ConflictsOf(a)) = 1
       /\ Len(IncidentsOf(a)) = 2
       /\ \E m \in 1..2 : IncidentsOf(a)[m].severity = "OK"

\* C18: the optimizer never assigns a tour to an agent who is unavailable for
\* it: at every commit that is not a logged fallback, the assigned agent's free
\* time (last_end of the tours committed to the agent before, virtual or in
\* person) plus the travel the tour requires is not later than the tour's end.
C18_NeverAssignsBusyAgent ==
  \A c \in Commits :
    ~c.warned =>
      LET s == c.before[c.assigned] IN
      s.last_end # NoEnd => s.last_end + TravelTo(s, TourOf(c)) <= TourOf(c).end

AllVirtual(d) ==
  \A i \in 1..Len(event_log) :
    DateOf(event_log[i]) = d => event_log[i].type = VIRTUAL_TOUR

\* C19: for a day whose events are all virtual, optimize_single_day_insertion
\* returns current and optimized travel time 0, current and optimized trips 0,
\* savings 0 and both savings percentages 0, and a log of virtual events only
\* never ends in an error.
C19_VirtualDayIsZero ==
  /\ \A n \in 1..Len(daily_results) :
       LET r == daily_results[n] IN
       AllVirtual(r.date) =>
         /\ r.current_travel_time = 0
         /\ r.optimized_travel_time = 0
         /\ r.current_trips = 0
         /\ r.optimized_trips = 0
         /\ r.savings = 0
         /\ r.trip_savings = 0
         /\ r.savings_percentage = 0
         /\ r.trip_savings_percentage = 0
  /\ (\A i \in 1..Len(event_log) : event_log[i].type = VIRTUAL_TOUR) => pc # "raised"

\* the result of a day of three virtual tours, two agents among them
C19_Witness ==
  \E n \in 1..Len(daily_results) :
    /\ AllVirtual(daily_results[n].date)
    /\ Len(daily_results[n].assignments) = 3
    /\ \E i, j \in 1..Len(event_log) :
         /\ DateOf(event_log[i]) = daily_results[n].date
         /\ DateOf(event_log[j]) = daily_results[n].date
         /\ event_log[i].agent # event_log[j].agent

\* C20: on an input without tours the lateness analyzer returns trivial zero
\* results (no agents, zero transitions, zero incidents) instead of raising
\* an error.
C20_EmptyLogGivesZeros ==
  (event_log = <<>> /\ pc # "lateness") =>
    /\ pc # "raised"
    /\ lateness_results # <<>>
    /\ lateness_results[1].system_stats.total_agents = 0
    /\ lateness_results[1].system_stats.total_transitions = 0
    /\ lateness_results[1].system_stats.total_late_incidents = 0
    /\ lateness_results[1].system_stats.total_risky_incidents = 0

\* C21: create_distance_matrix yields a square matrix over all property ids
\* whose diagonal entries are exactly 0 and whose every off-diagonal entry is
\* at least 5 minutes, also for distinct properties at identical coordinates.
C21_ZeroDiagonalFlooredElsewhere ==
  built_matrix # <<>> =>
    LET m == built_matrix[1] IN
    /\ DOMAIN m = (DOMAIN property_coords) \X (DOMAIN property_coords)
    /\ \A p, q \in DOMAIN property_coords :
         /\ p = q => m[<<p, q>>] = 0
         /\ p # q => m[<<p, q>>] >= 5

\* three properties, two of them at one coordinate (entry at the floor, where
\* distance time plus overhead is 2) and one far enough for an entry above it
C21_Witness ==
  /\ built_matrix # <<>>
  /\ DOMAIN property_coords = PropertyIds
  /\ property_coords["p1"] = property_coords["p2"]
  /\ built_matrix[1][<<"p1", "p2">>] = 5
  /\ built_matrix[1][<<"p1", "p3">>] > 5

\* A valid single-day input: all events on one date, every in-person property
\* in the matrix, and the original schedule feasible (in each agent's start
\* order every event ends, travel to the next in-person property included,
\* by the start of the agent's next event).
SingleDay == \A i, j \in 1..Len(event_log) : DateOf(event_log[i]) = DateOf(event_log[j])

CompleteMatrix ==
  \A i \in 1..Len(event_log) :
    event_log[i].type = ESCORTED => event_log[i].prop \in MatrixProps

TravelBetween(e1, e2) ==
  IF e1.type = ESCORTED /\ e2.type = ESCORTED THEN distance_matrix[<<e1.prop, e2.prop>>]
  ELSE 0

OriginalFeasible ==
  \A a \in AgentIds :
    \A i \in 1..(Len(EventsOf(a)) - 1) :
      EventAt(a, i).end + TravelBetween(EventAt(a, i), EventAt(a, i + 1))
        <= EventAt(a, i + 1).start

\* a1 shows p1 at 00:00; a2 shows p2 at 00:00 and again at 00:20: nobody travels
WorseDay ==
  << [agent |-> "a1", prop |-> "p1", start |-> 0, end |-> 0, type |-> ESCORTED],
     [agent |-> "a2", prop |-> "p2", start |-> 0, end |-> 0, type |-> ESCORTED],
     [agent |-> "a2", prop |-> "p2", start |-> 20, end |-> 20, type |-> ESCORTED] >>

\* C22: optimized travel <= current travel is not an invariant of the
\* heuristic: on the valid single-day input WorseDay, whose original schedule
\* needs no travel, every run of the optimizer ends with recomputed travel
\* minutes strictly above the original ones, for the day and for the total.
C22_OptimizedCanExceedCurrent ==
  event_log = WorseDay =>
    /\ pc # "raised"
    /\ \A n \in 1..Len(daily_results) :
         daily_results[n].optimized_travel_time > daily_results[n].current_travel_time
    /\ result # <<>> =>
         result[1].optimized_travel_minutes > result[1].current_travel_minutes

\* the estimate has returned for that input, which is valid
C22_Witness ==
  /\ event_log = WorseDay
  /\ SingleDay /\ CompleteMatrix /\ OriginalFeasible
  /\ pc = "returned"
  /\ result[1].current_travel_minutes = 0
  /\ result[1].optimized_travel_minutes = 20
  /\ result[1].potential_savings_minutes = -20

\* The commit made last in the running pass, and the free time an agent state
\* stands for (an agent without a committed tour is free from the tour's start).
LastCommit == commits[Len(commits)]

InPass == pc = "pass" /\ k > 1

FreeTime(s, tour) == IF s.last_end = NoEnd THEN tour.start ELSE s.last_end

\* C23: when an in-person event is committed to an agent, the agent's new
\* free time is max(prior free time + travel, event start) + event duration,
\* with travel 0 if the agent has no location yet, and the agent's location
\* becomes the event's property; also when the prior free time comes from
\* virtual tours and the agent has no location yet.
C23_InPersonCommitAdvancesFreeTime ==
  InPass =>
    LET c == LastCommit
        tour == TourOf(c)
        prior == c.before[c.assigned]
    IN tour.type = ESCORTED =>
         /\ state[c.assigned].loc = tour.prop
         /\ state[c.assigned].last_end =
              Max(FreeTime(prior, tour) + TravelTo(prior, tour), tour.start)
                + (tour.end - tour.start)

\* the aggregator's travel minutes of date d, over the agents of that date
AggregatorMinutesOf(d) ==
  SumOver(SelectSeq(current[1].detailed_results, LAMBDA r : r.date = d),
          "daily_travel_time")

\* C24: the two travel-time accumulations agree: the aggregator's total is the
\* sum over the dates of calculate_daily_current_travel on the date's events
\* (date by date, the day's value is the aggregator's minutes of that date),
\* so current_travel_minutes equals the sum of the per-day current_travel_time
\* and potential_savings_minutes equals the sum of the per-day savings.
C24_AccumulationsAgree ==
  /\ (pc = "pass" /\ k = 1) => day_current.travel = AggregatorMinutesOf(date)
  /\ pc = "returned" =>
       /\ current[1].total = SumOver(result[1].daily_results, "current_travel_time")
       /\ result[1].current_travel_minutes =
            SumOver(result[1].daily_results, "current_travel_time")
       /\ result[1].potential_savings_minutes =
            SumOver(result[1].daily_results, "savings")

\* the estimate returned for a log of two dates with travel on the second
C24_Witness ==
  /\ pc = "returned"
  /\ Len(result[1].daily_results) = 2
  /\ result[1].daily_results[1].current_travel_time = 0
  /\ result[1].daily_results[2].current_travel_time = 40
  /\ result[1].current_travel_minutes = 40

\* the agents with at least one event on date d in the original schedule
OriginalAgentsOn(d) ==
  { event_log[i].agent : i \in { j \in 1..Len(event_log) : DateOf(event_log[j]) = d } }

\* C25: every agent optimize_single_day_insertion assigns is one of the agents
\* with an event on that day in the original schedule, so the agents of the
\* optimized day are a subset of the agents of the original day.
C25_AssignedAgentIsOfTheDay ==
  /\ \A c \in Commits : c.assigned \in OriginalAgentsOn(c.date)
  /\ \A n \in 1..Len(daily_results) :
       \A j \in 1..Len(daily_results[n].assignments) :
         daily_results[n].assignments[j].assigned_agent
           \in OriginalAgentsOn(daily_results[n].date)
  /\ \A i \in DOMAIN optimized :
       optimized[i].agent \in OriginalAgentsOn(DateOf(event_log[i]))

\* a2 is in the log, but not on the first date: both tours of that date, the
\* second at another property than the first, stay with a1
C25_Witness ==
  /\ pc = "returned"
  /\ Len(daily_results) = 2
  /\ OriginalAgentsOn(daily_results[1].date) = {"a1"}
  /\ OriginalAgentsOn(daily_results[2].date) = {"a2"}
  /\ Len(daily_results[1].assignments) = 2
  /\ daily_results[1].current_travel_time > 0
  /\ \A j \in 1..2 : daily_results[1].assignments[j].assigned_agent = "a1"

\* C26: during a day's pass no agent's last_end decreases from one commit to
\* the next (an agent without a committed tour counts as free before any time).
C26_LastEndNeverDecreases ==
  InPass =>
    \A a \in DOMAIN state : state[a].last_end >= LastCommit.before[a].last_end

OnTimeAgents(c) ==
  { a \in DayAgents(c) :
      /\ c.before[a].loc # NoLoc
      /\ ArrivalAt(c.before[a], TourOf(c)) <= TourOf(c).start }

\* C28: for an in-person tour, a candidate with a location who arrives by the
\* tour's start costs start - last_end, whatever the travel time; so when the
\* chosen agent is such a candidate, no other such candidate was freed later,
\* and among those freed at the same time the chosen one comes first in the
\* day's agent order.
C28_OnTimeCostIgnoresTravel ==
  \A c \in Commits :
    TourOf(c).type # VIRTUAL_TOUR =>
      /\ \A a \in OnTimeAgents(c) :
           CandidateCost(c.before[a], TourOf(c))
             = TourOf(c).start - c.before[a].last_end
      /\ (~c.warned /\ c.assigned \in OnTimeAgents(c)) =>
           \A b \in OnTimeAgents(c) :
             /\ c.before[c.assigned].last_end >= c.before[b].last_end
             /\ c.before[c.assigned].last_end = c.before[b].last_end
                  => Position(c, c.assigned) <= Position(c, b)

\* an on-time agent is chosen although another on-time agent is nearer
C28_Witness ==
  \E c \in Commits :
    /\ TourOf(c).type # VIRTUAL_TOUR
    /\ ~c.warned
    /\ c.assigned \in OnTimeAgents(c)
    /\ \E b \in OnTimeAgents(c) :
         TravelTo(c.before[b], TourOf(c)) < TravelTo(c.before[c.assigned], TourOf(c))

\* the events of date d in the original schedule
EventIdsOn(d) == { i \in 1..Len(event_log) : DateOf(event_log[i]) = d }

\* C29: on a day with a single agent every event of the day is assigned to
\* that agent (as the eligible candidate or through the fallback to the
\* original agent), so the optimized day is the original day: optimized
\* travel time and trips equal the current ones, and savings, trip savings
\* and both percentages are 0.
C29_SingleAgentDayUnchanged ==
  \A n \in 1..Len(daily_results) :
    LET r == daily_results[n] IN
    Cardinality(OriginalAgentsOn(r.date)) = 1 =>
      /\ \A i \in EventIdsOn(r.date) :
           \E j \in 1..Len(r.assignments) :
             /\ r.assignments[j].tour_id = i
             /\ r.assignments[j].assigned_agent \in OriginalAgentsOn(r.date)
      /\ r.optimized_travel_time = r.current_travel_time
      /\ r.optimized_trips = r.current_trips
      /\ r.savings = 0
      /\ r.trip_savings = 0
      /\ r.savings_percentage = 0
      /\ r.trip_savings_percentage = 0

\* the result of a single-agent day with travel, one of whose tours the agent
\* could not reach in time and kept through the fallback
C29_Witness ==
  \E n \in 1..Len(daily_results) :
    /\ Cardinality(OriginalAgentsOn(daily_results[n].date)) = 1
    /\ daily_results[n].current_travel_time > 0
    /\ \E c \in Commits : c.date = daily_results[n].date /\ c.warned

\* the transitions of agent a that the lateness analysis classifies LATE or
\* RISKY
LateOrRisky(a) ==
  { i \in Transitions(a) :
      IncidentsOf(a)[Rank(Transitions(a), i)].severity \in {"LATE", "RISKY"} }

\* C30: with the default buffer of 5 minutes the transitions that
\* analyze_schedule_conflicts flags impossible are exactly the transitions
\* that analyze_agent_lateness_risk classifies LATE or RISKY on the same log
\* and matrix (available < required + 5 iff lateness > -5).
C30_DefaultBufferMatchesLateOrRisky ==
  (lateness_results # <<>> /\ impossible_schedules # <<>> /\ buffer_minutes = 5) =>
    \A a \in AgentIds :
      /\ Len(IncidentsOf(a)) = Cardinality(Transitions(a))
      /\ Len(ConflictsOf(a)) = Cardinality(LateOrRisky(a))
      /\ \A i \in LateOrRisky(a) :
           LET c == ConflictsOf(a)[Rank(LateOrRisky(a), i)]
               inc == IncidentsOf(a)[Rank(Transitions(a), i)]
           IN /\ c.current_tour_end = inc.current_tour_end
              /\ c.next_tour_start = inc.next_tour_start
              /\ c.available_time = inc.available_time_minutes
              /\ c.required_time = inc.required_travel_time_minutes + 5

\* default buffer: an agent with one transition exactly 5 minutes early,
\* classified OK and not flagged, and one flagged transition
C30_Witness ==
  /\ lateness_results # <<>>
  /\ impossible_schedules # <<>>
  /\ buffer_minutes = 5
  /\ \E a \in AgentIds :
       /\ Len(IncidentsOf(a)) = 2
       /\ Len(ConflictsOf(a)) = 1
       /\ \E m \in 1..2 :
            /\ IncidentsOf(a)[m].lateness_minutes = -5
            /\ IncidentsOf(a)[m].severity = "OK"
====
